---- MODULE Spec2Model ----
(***************************************************************************)
(* Model of Collections/dicts.py: class Dictionary, an ordered dictionary  *)
(* kept in a fixed-size slot array that is rebuilt at a larger size on     *)
(* every collision.                                                        *)
(*                                                                         *)
(* A Dictionary object is a record with the fields of the Python object    *)
(* (_len, _max_len, _multiplier, _store, _iterators, _added, written here  *)
(* without the leading underscore).  A slot of _store holds None, written  *)
(* <<>>, or the tuple <<key, value, sequence>>.  The slot array is indexed *)
(* from 0 as in the source.                                                *)
(***************************************************************************)
EXTENDS Integers, Sequences, FiniteSets, TLC

\* ------------------------------------------------------------------------
\* Bounds of the model
\* ------------------------------------------------------------------------
MaxHash == 3      \* hash values of the keys range over 0..MaxHash
MaxAdded == 3     \* a write is issued only while _added < MaxAdded
MaxDepth == 2     \* stand-in for the interpreter's recursion limit
MaxIterAdded == 2 \* writes of the client that iterates
MaxPairAdded == 4 \* writes of the client that compares two objects, in all
MaxGot == 3       \* __next__ is called only while a consumer holds fewer pairs
MaxFillHash == 4  \* hash values of the five keys range over 0..MaxFillHash
MaxCopyAdded == 3 \* writes of the client that copies, to both objects in all
MaxFillAdded == 5 \* writes of the client that stores five keys

\* ------------------------------------------------------------------------
\* Program constants
\* ------------------------------------------------------------------------
MAX_LEN == 4      \* Dictionary._MAX_LEN
MULTIPLIER == 2   \* Dictionary._MULTIPLIER
SENTINEL == "_SENTINEL"   \* Dictionary._SENTINEL, the "no default" marker
NoneVal == "None"         \* Python's None as a value

Keys == {"k1", "k2", "k3"}
\* values a caller stores: "" is falsy, "x" is truthy
Vals == {"", "x"}
\* what a caller may pass as pop's default
Defaults == Vals \cup {NoneVal, SENTINEL}
\* configurations Dictionary(max_len=.., multiplier=..) is constructed with
Capacities == {1, MAX_LEN}
Multipliers == {1, MULTIPLIER, 3}

VARIABLES
    hash,       \* the hash() of every key: fixed through a run
    self,       \* the Dictionary object under test
    other,      \* a second Dictionary object (equality, copy)
    shared,     \* whether self._store and other._store are one list object
    made,       \* number of calls of the factory of a DefaultDict
    model,      \* history: key -> value of its most recent write, or absent
    order,      \* history: surviving keys in the order of their last write
    omodel,     \* history of the second object, as model
    oorder,     \* history of the second object, as order
    written,    \* history: number of writes that inserted an absent key
    deleted,    \* history: number of successful deletes
    last,       \* the last keyed call: operation, arguments, outcome, result
    cons        \* the consumers iterating over self

vars == <<hash, self, other, shared, made, model, order, omodel, oorder, written, deleted, last, cons>>

Absent == "absent"

\* ------------------------------------------------------------------------
\* The Dictionary class
\* ------------------------------------------------------------------------
Empty == <<>>

\* a key of a type that has no hash, such as a list: hash(key) raises TypeError
Unhashable == "[]"

Hashable(key) == key \in DOMAIN hash

\* the slot of a hashable key: hash(key) % self._max_len
Slot(d, key) == hash[key] % d.max_len

\* the state __init__ sets up before it writes kv_pairs
NewDict(max_len, multiplier) ==
    [len |-> 0,
     max_len |-> max_len,
     multiplier |-> multiplier,
     store |-> [i \in 0..(max_len - 1) |-> Empty],
     iterators |-> -1,
     added |-> 0]

Occupied(d) == {i \in DOMAIN d.store : d.store[i] # Empty}

\* sorted(..., key=lambda item: item[2]) over the occupied slots: a stable
\* sort of the slots in index order, so ties on the sequence number keep the
\* slot order
RECURSIVE SortSlots(_, _)
SortSlots(d, S) ==
    IF S = {} THEN <<>>
    ELSE LET i == CHOOSE x \in S : \A y \in S :
                      \/ d.store[x][3] < d.store[y][3]
                      \/ d.store[x][3] = d.store[y][3] /\ x <= y
         IN <<i>> \o SortSlots(d, S \ {i})

SortedSlots(d) == SortSlots(d, Occupied(d))

items(d) ==
    LET s == SortedSlots(d)
    IN [n \in 1..Len(s) |-> <<d.store[s[n]][1], d.store[s[n]][2]>>]

keys(d) == LET it == items(d) IN [n \in 1..Len(it) |-> it[n][1]]

values(d) == LET it == items(d) IN [n \in 1..Len(it) |-> it[n][2]]

\* __setitem__ and __init__ call each other: a write that grows builds a new
\* object from items(), and the constructor writes every pair.  Both return
\* [d |-> the object, ok |-> whether the call returned, trace |-> the
\* rebuilds of d itself, each as <<object before, object after>>].  ok is
\* FALSE when the key is not hashable, the call ends in TypeError, and when
\* the recursion of line 70 is deeper than MaxDepth: the call ends in
\* RecursionError or MemoryError.
RECURSIVE setitem(_, _, _, _)
RECURSIVE WritePairs(_, _, _)

\* the loops of __init__ (lines 36-42): self[key] = value for every pair
WritePairs(d, kv, n) ==
    IF n > Len(kv) THEN [d |-> d, ok |-> TRUE, trace |-> <<>>]
    ELSE LET r == setitem(d, kv[n][1], kv[n][2], 0)
         IN IF r.ok THEN WritePairs(r.d, kv, n + 1) ELSE r

\* Dictionary(kv_pairs, max_len=max_len, multiplier=multiplier)
init(kv_pairs, max_len, multiplier) ==
    WritePairs(NewDict(max_len, multiplier), kv_pairs, 1)

\* the pairs of the occupied slots in slot order, not sorted
SlotPairs(d) ==
    LET RECURSIVE Up(_)
        Up(i) == IF i >= d.max_len THEN <<>>
                 ELSE (IF d.store[i] = Empty THEN <<>>
                       ELSE << <<d.store[i][1], d.store[i][2]>> >>) \o Up(i + 1)
    IN Up(0)

\* Grow, rebuilding from the slots in slot order instead of items()
GrowSlotOrder(d) ==
    LET r == init(SlotPairs(d), d.max_len * d.multiplier, MULTIPLIER)
    IN [d |-> [d EXCEPT !.len = r.d.len,
                        !.max_len = r.d.max_len,
                        !.store = r.d.store],
        ok |-> r.ok]

\* Grow, rebuilding from all pairs but the most recent one
GrowDropsLast(d) ==
    LET it == items(d)
        r == init(SubSeq(it, 1, Len(it) - 1), d.max_len * d.multiplier, MULTIPLIER)
    IN [d |-> [d EXCEPT !.len = r.d.len,
                        !.max_len = r.d.max_len,
                        !.store = r.d.store],
        ok |-> r.ok]

\* Grow, extending the slot array in place: the entries stay in their slots
GrowKeepsSlots(d) ==
    [d |-> [d EXCEPT !.max_len = d.max_len * d.multiplier,
                     !.store = [i \in 0..(d.max_len * d.multiplier - 1) |->
                                  IF i < d.max_len THEN d.store[i] ELSE Empty]],
     ok |-> TRUE]

\* Grow, multiplying by the class's default _MULTIPLIER
GrowDefaultMultiplier(d) ==
    LET r == init(items(d), d.max_len * MULTIPLIER, MULTIPLIER)
    IN [d |-> [d EXCEPT !.len = r.d.len,
                        !.max_len = r.d.max_len,
                        !.store = r.d.store],
        ok |-> r.ok]

\* lines 52-55 and 66-69: rebuild at _max_len * _multiplier.  The new object
\* is built with the class's default multiplier, and only _len, _max_len and
\* _store are taken from it: _multiplier and _added stay.
Grow(d) ==
    LET r == init(items(d), d.max_len * d.multiplier, MULTIPLIER)
    IN [d |-> [d EXCEPT !.len = r.d.len,
                        !.max_len = r.d.max_len,
                        !.store = r.d.store],
        ok |-> r.ok]

\* Place, keeping the stored value when the key is present
PlaceKeepsValue(d, key, value) ==
    LET h == Slot(d, key)
    IN [d EXCEPT !.len = IF d.store[h] = Empty THEN d.len + 1 ELSE d.len,
                 !.store[h] = <<key, IF d.store[h] = Empty THEN value ELSE d.store[h][2],
                                d.added>>,
                 !.added = d.added + 1]

\* Place, counting every write as a new entry
PlaceAlwaysCounts(d, key, value) ==
    LET h == Slot(d, key)
    IN [d EXCEPT !.len = d.len + 1,
                 !.store[h] = <<key, value, d.added>>,
                 !.added = d.added + 1]

\* Place, numbering the entry by the count of entries
PlaceNumbersByLen(d, key, value) ==
    LET h == Slot(d, key)
    IN [d EXCEPT !.len = IF d.store[h] = Empty THEN d.len + 1 ELSE d.len,
                 !.store[h] = <<key, value, d.len>>,
                 !.added = d.added + 1]

\* lines 60-64: the slot is free or holds the key
Place(d, key, value) ==
    LET h == Slot(d, key)
    IN [d EXCEPT !.len = IF d.store[h] = Empty THEN d.len + 1 ELSE d.len,
                 !.store[h] = <<key, value, d.added>>,
                 !.added = d.added + 1]

\* lines 51-70
setitem(d, key, value, depth) ==
    LET full == d.len >= d.max_len
        g1 == IF full THEN Grow(d) ELSE [d |-> d, ok |-> TRUE]
        t1 == IF full THEN << <<d, g1.d>> >> ELSE <<>>
        d1 == g1.d
        h == Slot(d1, key)
    IN IF ~g1.ok THEN [d |-> d, ok |-> FALSE, trace |-> <<>>]
       ELSE IF ~Hashable(key) THEN [d |-> d1, ok |-> FALSE, trace |-> t1]
       ELSE IF d1.store[h] = Empty \/ d1.store[h][1] = key
            THEN [d |-> Place(d1, key, value), ok |-> TRUE, trace |-> t1]
       ELSE IF depth >= MaxDepth
            THEN [d |-> d1, ok |-> FALSE, trace |-> t1]
       ELSE LET g2 == Grow(d1)
            IN IF ~g2.ok THEN [d |-> d1, ok |-> FALSE, trace |-> t1]
               ELSE LET r == setitem(g2.d, key, value, depth + 1)
                    IN [d |-> r.d, ok |-> r.ok,
                        trace |-> t1 \o << <<d1, g2.d>> >> \o r.trace]

\* __contains__ (as a boolean): False for a key that is not hashable
contains(d, key) ==
    LET h == Slot(d, key)
    IN IF ~Hashable(key) THEN FALSE
       ELSE d.store[h] # Empty /\ d.store[h][1] = key

\* __getitem__ letting the TypeError of hash() through
getitemPropagates(d, key) ==
    LET h == Slot(d, key)
    IN IF ~Hashable(key) THEN [outcome |-> "TypeError", ret |-> NoneVal]
       ELSE IF d.store[h] # Empty /\ d.store[h][1] = key
       THEN [outcome |-> "return", ret |-> d.store[h][2]]
       ELSE [outcome |-> "KeyError", ret |-> NoneVal]

\* __getitem__: the value, or KeyError; the TypeError of hash() is caught and
\* KeyError raised in its place
getitem(d, key) ==
    LET h == Slot(d, key)
    IN IF ~Hashable(key) THEN [outcome |-> "KeyError", ret |-> NoneVal]
       ELSE IF d.store[h] # Empty /\ d.store[h][1] = key
       THEN [outcome |-> "return", ret |-> d.store[h][2]]
       ELSE [outcome |-> "KeyError", ret |-> NoneVal]

\* __delitem__ going back to a slot array of length 1 when the last entry is
\* deleted
delitemShrinks(d, key) ==
    LET h == Slot(d, key)
    IN IF ~Hashable(key) THEN [d |-> d, outcome |-> "KeyError"]
       ELSE IF d.store[h] # Empty /\ d.store[h][1] = key
       THEN [d |-> IF d.len = 1
                   THEN [d EXCEPT !.store = [i \in {0} |-> Empty],
                                  !.max_len = 1, !.len = 0]
                   ELSE [d EXCEPT !.store[h] = Empty, !.len = d.len - 1],
             outcome |-> "return"]
       ELSE [d |-> d, outcome |-> "KeyError"]

\* __delitem__ clearing the key's slot whatever key it holds
delitemAnyKey(d, key) ==
    LET h == Slot(d, key)
    IN IF ~Hashable(key) THEN [d |-> d, outcome |-> "KeyError"]
       ELSE IF d.store[h] # Empty
       THEN [d |-> [d EXCEPT !.store[h] = Empty, !.len = d.len - 1],
             outcome |-> "return"]
       ELSE [d |-> d, outcome |-> "KeyError"]

\* __delitem__; the TypeError of hash() is caught and KeyError raised in its
\* place
delitem(d, key) ==
    LET h == Slot(d, key)
    IN IF ~Hashable(key) THEN [d |-> d, outcome |-> "KeyError"]
       ELSE IF d.store[h] # Empty /\ d.store[h][1] = key
       THEN [d |-> [d EXCEPT !.store[h] = Empty, !.len = d.len - 1],
             outcome |-> "return"]
       ELSE [d |-> d, outcome |-> "KeyError"]

\* __len__
len(d) == d.len

\* pop with None as the "no default" marker: pop(self, key, default=None)
popNoneDefault(d, key, default) ==
    IF contains(d, key)
    THEN [d |-> delitem(d, key).d, outcome |-> "return", ret |-> getitem(d, key).ret]
    ELSE IF default \notin {SENTINEL, NoneVal}
         THEN [d |-> d, outcome |-> "return", ret |-> default]
         ELSE [d |-> d, outcome |-> "KeyError", ret |-> NoneVal]

\* pop(key, default): [d, outcome, ret]
pop(d, key, default) ==
    IF contains(d, key)
    THEN [d |-> delitem(d, key).d, outcome |-> "return", ret |-> getitem(d, key).ret]
    ELSE IF default # SENTINEL
         THEN [d |-> d, outcome |-> "return", ret |-> default]
         ELSE [d |-> d, outcome |-> "KeyError", ret |-> NoneVal]

\* get(key, default): self[key], or default on KeyError
get(d, key, default) ==
    LET r == getitem(d, key)
    IN IF r.outcome = "KeyError" THEN [outcome |-> "return", ret |-> default] ELSE r

\* popitem removing the oldest pair: keys[0] in place of keys[-1]
popitemOldest(d) ==
    LET ks == keys(d)
    IN IF ks # <<>>
       THEN LET p == pop(d, ks[1], SENTINEL)
            IN [d |-> p.d, outcome |-> p.outcome, ret |-> <<ks[1], p.ret>>]
       ELSE [d |-> d, outcome |-> "KeyError", ret |-> NoneVal]

\* popitem(): [d, outcome, ret]
popitem(d) ==
    LET ks == keys(d)
    IN IF ks # <<>>
       THEN LET p == pop(d, ks[Len(ks)], SENTINEL)
            IN [d |-> p.d, outcome |-> p.outcome, ret |-> <<ks[Len(ks)], p.ret>>]
       ELSE [d |-> d, outcome |-> "KeyError", ret |-> NoneVal]

\* __iter__, leaving the cursor of an iteration in progress where it is
iterKeepsCursor(d) ==
    [d EXCEPT !.iterators = IF d.iterators >= 0 THEN d.iterators ELSE 0]

\* __iter__
iter(d) == [d EXCEPT !.iterators = 0]

\* __next__: [d, outcome, ret]; outcome "StopIteration" or "return"
next(d) ==
    LET stop == [d |-> [d EXCEPT !.iterators = -1],
                 outcome |-> "StopIteration", ret |-> <<>>]
        rest == {i \in DOMAIN d.store : i >= d.iterators /\ d.store[i] # Empty}
    IN IF d.iterators > d.max_len \/ d.iterators < 0 THEN stop
       ELSE IF rest = {} THEN stop
       ELSE LET i == CHOOSE x \in rest : \A y \in rest : x <= y
            IN [d |-> [d EXCEPT !.iterators = i + 1],
                outcome |-> "return",
                ret |-> <<d.store[i][1], d.store[i][2]>>]

\* __eq__ comparing the pairs without their order
eqUnordered(d, e) ==
    {items(d)[n] : n \in 1..Len(items(d))} = {items(e)[n] : n \in 1..Len(items(e))}

\* __eq__
eq(d, e) == items(d) = items(e)

\* ------------------------------------------------------------------------
\* History kept beside the objects (not program state)
\* ------------------------------------------------------------------------
Without(seq, key) == SelectSeq(seq, LAMBDA k : k # key)

\* a call as recorded in last; trace holds the rebuilds a write made, each as
\* <<object before, object after>>
Call(op, key, value, outcome, ret, trace) ==
    [op |-> op, key |-> key, value |-> value, outcome |-> outcome,
     ret |-> ret, trace |-> trace]

NoCall == Call("none", "none", NoneVal, "return", NoneVal, <<>>)

\* an uncaught RecursionError or MemoryError ends the program
Running == last.outcome # "RecursionError"

Consumers == {1, 2}

\* A consumer of an iteration over self: st is "none", "running" (it called
\* iter() and has not seen StopIteration), "stopped", or "disturbed" (a write
\* or a delete happened since its iter(): what it is given is no longer
\* recorded); got holds the pairs it was given since its iter(); alone says
\* that no other consumer called iter() or next() since; cut says that the
\* other consumer called iter() when this one had been given some but not all
\* of the entries, and after holds the pairs it was given since the other's
\* last iter().
Idle == [st |-> "none", got |-> <<>>, after |-> <<>>, alone |-> FALSE, cut |-> FALSE]

Fresh == [st |-> "running", got |-> <<>>, after |-> <<>>, alone |-> TRUE, cut |-> FALSE]

Lost == [st |-> "disturbed", got |-> <<>>, after |-> <<>>, alone |-> FALSE, cut |-> FALSE]

Other(c) == CHOOSE o \in Consumers : o # c

\* a write or a delete happens during whatever iteration is open or done
Disturbed(cs) == [c \in Consumers |-> IF cs[c].st = "none" THEN cs[c] ELSE Lost]

\* self._store[i] = ... assigns to a slot of the list object: when the two
\* objects hold one list, the assignment one of them, d, made is seen by the
\* other, e.  A rebuild binds a new list to the object that made it.
Aliased(e, d) == IF shared THEN [e EXCEPT !.store = d.store] ELSE e

\* ------------------------------------------------------------------------
\* Operations on self
\* ------------------------------------------------------------------------
\* self[key] = value
Store(key, value) ==
    /\ Running
    /\ LET r == setitem(self, key, value, 0)
       IN /\ self' = r.d
          /\ IF r.ok
             THEN /\ model' = [model EXCEPT ![key] = value]
                  /\ order' = Append(Without(order, key), key)
                  /\ written' = IF model[key] = Absent THEN written + 1 ELSE written
                  /\ last' = Call("setitem", key, value, "return", NoneVal, r.trace)
             ELSE /\ UNCHANGED <<model, order, written>>
                  /\ last' = Call("setitem", key, value,
                                   IF Hashable(key) THEN "RecursionError" ELSE "TypeError",
                                   NoneVal, r.trace)
          /\ other' = IF r.trace = <<>> THEN Aliased(other, r.d) ELSE other
          /\ shared' = (shared /\ r.trace = <<>>)
    /\ cons' = Disturbed(cons)
    /\ UNCHANGED <<hash, made, omodel, oorder, deleted>>

\* self[key] = value, issued while fewer than MaxAdded writes were made
Write(key, value) == self.added < MaxAdded /\ Store(key, value)

\* self[key]
Read(key) ==
    /\ Running
    /\ LET r == getitem(self, key)
       IN last' = Call("getitem", key, NoneVal, r.outcome, r.ret, <<>>)
    /\ UNCHANGED <<hash, made, shared, self, other, model, order, omodel, oorder, written, deleted, cons>>

\* del self[key]
Delete(key) ==
    /\ Running
    /\ LET r == delitem(self, key)
       IN /\ self' = r.d
          /\ last' = Call("delitem", key, NoneVal, r.outcome, NoneVal, <<>>)
          /\ IF r.outcome = "return"
             THEN /\ model' = [model EXCEPT ![key] = Absent]
                  /\ order' = Without(order, key)
                  /\ deleted' = deleted + 1
             ELSE UNCHANGED <<model, order, deleted>>
          /\ other' = Aliased(other, r.d)
    /\ cons' = Disturbed(cons)
    /\ UNCHANGED <<hash, made, shared, omodel, oorder, written>>

\* self.pop(key, default); default = SENTINEL when the caller gives none
Pop(key, default) ==
    /\ Running
    /\ LET r == pop(self, key, default)
       IN /\ self' = r.d
          /\ last' = Call("pop", key, default, r.outcome, r.ret, <<>>)
          /\ IF self' # self
             THEN /\ model' = [model EXCEPT ![key] = Absent]
                  /\ order' = Without(order, key)
                  /\ deleted' = deleted + 1
             ELSE UNCHANGED <<model, order, deleted>>
          /\ other' = Aliased(other, r.d)
    /\ cons' = Disturbed(cons)
    /\ UNCHANGED <<hash, made, shared, omodel, oorder, written>>

\* self.popitem()
PopItem ==
    /\ Running
    /\ LET r == popitem(self)
       IN /\ self' = r.d
          /\ last' = Call("popitem", "none", NoneVal, r.outcome, r.ret, <<>>)
          /\ IF r.outcome = "return"
             THEN /\ model' = [model EXCEPT ![r.ret[1]] = Absent]
                  /\ order' = Without(order, r.ret[1])
                  /\ deleted' = deleted + 1
             ELSE UNCHANGED <<model, order, deleted>>
          /\ other' = Aliased(other, r.d)
    /\ cons' = Disturbed(cons)
    /\ UNCHANGED <<hash, made, shared, omodel, oorder, written>>

\* self.get(key, default); default = None when the caller gives none
Get(key, default) ==
    /\ Running
    /\ LET r == get(self, key, default)
       IN last' = Call("get", key, default, r.outcome, r.ret, <<>>)
    /\ UNCHANGED <<hash, made, shared, self, other, model, order, omodel, oorder, written, deleted, cons>>

\* key in self
Contains(key) ==
    /\ Running
    /\ last' = Call("contains", key, NoneVal, "return", contains(self, key), <<>>)
    /\ UNCHANGED <<hash, made, shared, self, other, model, order, omodel, oorder, written, deleted, cons>>

\* len(self)
LenCall ==
    /\ Running
    /\ last' = Call("len", "none", NoneVal, "return", len(self), <<>>)
    /\ UNCHANGED <<hash, made, shared, self, other, model, order, omodel, oorder, written, deleted, cons>>

\* self.items()
ItemsCall ==
    /\ Running
    /\ last' = Call("items", "none", NoneVal, "return", items(self), <<>>)
    /\ UNCHANGED <<hash, made, shared, self, other, model, order, omodel, oorder, written, deleted, cons>>

\* consumer c calls iter(self)
IterCall(c) ==
    /\ Running
    /\ self' = iter(self)
    /\ LET o == Other(c)
           partial == /\ cons[o].st = "running"
                      /\ cons[o].alone
                      /\ Len(cons[o].got) > 0
                      /\ Len(cons[o].got) < len(self)
       IN cons' = [cons EXCEPT
                ![c] = Fresh,
                ![o] = IF @.st \in {"none", "disturbed"} THEN @
                       ELSE [@ EXCEPT !.alone = FALSE,
                                      !.after = <<>>,
                                      !.cut = @ \/ partial]]
    /\ UNCHANGED <<hash, made, shared, other, model, order, omodel, oorder, written, deleted, last>>

\* consumer c calls next() on the iterator it holds
NextCall(c) ==
    /\ Running
    /\ cons[c].st \in {"running", "disturbed"}
    /\ Len(cons[c].got) < MaxGot
    /\ LET r == next(self)
           o == Other(c)
       IN /\ self' = r.d
          /\ cons' = [cons EXCEPT
                ![c] = IF @.st = "disturbed" THEN @
                       ELSE IF r.outcome = "return"
                       THEN [@ EXCEPT !.got = Append(@, r.ret),
                                      !.after = IF cons[c].cut THEN Append(@, r.ret) ELSE @]
                       ELSE [@ EXCEPT !.st = "stopped"],
                ![o] = IF @.st \in {"none", "disturbed"} THEN @
                       ELSE [@ EXCEPT !.alone = FALSE]]
    /\ UNCHANGED <<hash, made, shared, other, model, order, omodel, oorder, written, deleted, last>>

\* other[key] = value
OtherWrite(key, value) ==
    /\ Running
    /\ other.added < MaxAdded
    /\ LET r == setitem(other, key, value, 0)
       IN /\ other' = r.d
          /\ IF r.ok
             THEN /\ omodel' = [omodel EXCEPT ![key] = value]
                  /\ oorder' = Append(Without(oorder, key), key)
                  /\ last' = Call("other.setitem", key, value, "return", NoneVal, r.trace)
             ELSE /\ UNCHANGED <<omodel, oorder>>
                  /\ last' = Call("other.setitem", key, value, "RecursionError",
                                   NoneVal, r.trace)
          /\ self' = IF r.trace = <<>> THEN Aliased(self, r.d) ELSE self
          /\ shared' = (shared /\ r.trace = <<>>)
    /\ UNCHANGED <<hash, made, model, order, written, deleted, cons>>

\* del other[key], for a key that is stored
OtherDelete(key) ==
    /\ Running
    /\ contains(other, key)
    /\ other' = delitem(other, key).d
    /\ omodel' = [omodel EXCEPT ![key] = Absent]
    /\ oorder' = Without(oorder, key)
    /\ last' = Call("other.delitem", key, NoneVal, "return", NoneVal, <<>>)
    /\ self' = Aliased(self, delitem(other, key).d)
    /\ UNCHANGED <<hash, made, shared, model, order, written, deleted, cons>>

\* other = copy.copy(self): a new object whose attributes are those of self;
\* the numbers are values, _store is the same list object
Copy ==
    /\ Running
    /\ ~shared
    /\ other.added = 0
    /\ other' = self
    /\ shared' = TRUE
    /\ omodel' = model
    /\ oorder' = order
    /\ last' = Call("copy", "none", NoneVal, "return", NoneVal, <<>>)
    /\ UNCHANGED <<hash, made, self, model, order, written, deleted, cons>>

\* DefaultDict: a Dictionary that holds a factory.  Its state is that of
\* Dictionary.__init__ with the factory beside it.
NewDefaultDict(factory, max_len, multiplier) ==
    [f \in {"factory"} |-> factory] @@ NewDict(max_len, multiplier)

\* the values the factory returns, a new one at every call
Made == <<"m1", "m2", "m3", "m4", "m5">>

\* self[key] on a DefaultDict: the read of Dictionary; when it fails for an
\* absent key, self[key] = factory() and the value written is returned
DefaultRead(key) ==
    /\ Running
    /\ LET r == getitem(self, key)
       IN IF r.outcome = "return"
          THEN /\ last' = Call("default.getitem", key, NoneVal, "return", r.ret, <<>>)
               /\ UNCHANGED <<self, other, shared, made, model, order, written>>
          ELSE /\ self.added < MaxAdded
               /\ LET v == Made[made + 1]
                      w == setitem(self, key, v, 0)
                  IN /\ made' = made + 1
                     /\ self' = w.d
                     /\ other' = IF w.trace = <<>> THEN Aliased(other, w.d) ELSE other
                     /\ shared' = (shared /\ w.trace = <<>>)
                     /\ IF w.ok
                        THEN /\ model' = [model EXCEPT ![key] = v]
                             /\ order' = Append(Without(order, key), key)
                             /\ written' = written + 1
                             /\ last' = Call("default.getitem", key, NoneVal,
                                              "return", v, w.trace)
                        ELSE /\ UNCHANGED <<model, order, written>>
                             /\ last' = Call("default.getitem", key, NoneVal,
                                              "RecursionError", NoneVal, w.trace)
    /\ cons' = Disturbed(cons)
    /\ UNCHANGED <<hash, omodel, oorder, deleted>>

\* self == other
Compare ==
    /\ Running
    /\ last' = Call("eq", "none", NoneVal, "return", eq(self, other), <<>>)
    /\ UNCHANGED <<hash, made, shared, self, other, model, order, omodel, oorder, written, deleted, cons>>

HistoryInit ==
    /\ model = [k \in Keys |-> Absent]
    /\ order = <<>>
    /\ omodel = [k \in Keys |-> Absent]
    /\ oorder = <<>>
    /\ written = 0
    /\ deleted = 0
    /\ last = NoCall
    /\ cons = [c \in Consumers |-> Idle]
    /\ shared = FALSE
    /\ made = 0

\* Every hash() of the keys, up to the names of the keys: the operations treat
\* all keys alike, so a run under any assignment is a run under a
\* non-decreasing one with the keys renamed.
Hashes ==
    {f \in [Keys -> 0..MaxHash] : f["k1"] <= f["k2"] /\ f["k2"] <= f["k3"]}

\* Dictionary(max_len=c, multiplier=m)
Init ==
    /\ hash \in Hashes
    /\ \E c \in Capacities, m \in Multipliers : self = NewDict(c, m)
    /\ other = NewDict(MAX_LEN, MULTIPLIER)
    /\ HistoryInit

Next ==
    \/ \E k \in Keys, v \in Vals : Write(k, v)
    \/ \E k \in Keys : Read(k)
    \/ \E k \in Keys : Delete(k)

Spec == Init /\ [][Next]_vars

\* Dictionary()
InitDefault ==
    /\ hash \in Hashes
    /\ self = NewDict(MAX_LEN, MULTIPLIER)
    /\ other = NewDict(MAX_LEN, MULTIPLIER)
    /\ HistoryInit

\* a client that writes, deletes and pops
NextPop ==
    \/ \E k \in Keys, v \in Vals : Write(k, v)
    \/ \E k \in Keys : Delete(k)
    \/ \E k \in Keys, dflt \in Defaults : Pop(k, dflt)

SpecPop == InitDefault /\ [][NextPop]_vars

\* a client that writes and iterates, with two consumers; the value written
\* plays no part in the iteration, so one value is written
NextIter ==
    \/ \E k \in Keys : self.added < MaxIterAdded /\ Write(k, "x")
    \/ \E c \in Consumers : IterCall(c)
    \/ \E c \in Consumers : NextCall(c)

SpecIter == InitDefault /\ [][NextIter]_vars

\* Dictionary() and Dictionary(max_len=1)
InitPair ==
    /\ hash \in Hashes
    /\ self = NewDict(MAX_LEN, MULTIPLIER)
    /\ other = NewDict(1, MULTIPLIER)
    /\ HistoryInit

\* a client that fills two objects and compares them; the first object is
\* written with one value, the second with any, and entries are deleted from
\* the second
NextPair ==
    \/ \E k \in Keys :
          self.added + other.added < MaxPairAdded /\ Write(k, "x")
    \/ \E k \in Keys, v \in Vals :
          self.added + other.added < MaxPairAdded /\ OtherWrite(k, v)
    \/ \E k \in Keys : OtherDelete(k)
    \/ Compare

SpecPair == InitPair /\ [][NextPair]_vars

\* Dictionary(max_len=c)
InitCapacity ==
    /\ hash \in Hashes
    /\ \E c \in Capacities : self = NewDict(c, MULTIPLIER)
    /\ other = NewDict(MAX_LEN, MULTIPLIER)
    /\ HistoryInit

\* a client that writes and removes entries by key and by age
NextPopItem ==
    \/ \E k \in Keys, v \in Vals : Write(k, v)
    \/ \E k \in Keys : Delete(k)
    \/ PopItem

SpecPopItem == InitCapacity /\ [][NextPopItem]_vars

\* a client that also passes a key that is not hashable
NextUnhashable ==
    \/ \E k \in Keys \cup {Unhashable} : Write(k, "x")
    \/ \E k \in Keys \cup {Unhashable} : Read(k)
    \/ \E k \in Keys \cup {Unhashable} : Delete(k)
    \/ \E k \in Keys \cup {Unhashable} : Contains(k)
    \/ \E k \in Keys \cup {Unhashable}, dflt \in {NoneVal, "x"} : Get(k, dflt)

SpecUnhashable == InitCapacity /\ [][NextUnhashable]_vars

\* the keys of d = Dictionary([(f'{n}', f'{n}') for n in range(5)])
FillKeys == <<"0", "1", "2", "3", "4">>

\* Dictionary() and every hash() of the five keys
InitFill ==
    /\ hash \in [{FillKeys[n] : n \in 1..Len(FillKeys)} -> 0..MaxFillHash]
    /\ self = NewDict(MAX_LEN, MULTIPLIER)
    /\ other = NewDict(MAX_LEN, MULTIPLIER)
    /\ model = [k \in DOMAIN hash |-> Absent]
    /\ order = <<>>
    /\ omodel = [k \in Keys |-> Absent]
    /\ oorder = <<>>
    /\ written = 0
    /\ deleted = 0
    /\ last = NoCall
    /\ cons = [c \in Consumers |-> Idle]
    /\ shared = FALSE
    /\ made = 0

\* the constructor's loop writes the next pair
FillNext ==
    /\ written < Len(FillKeys)
    /\ Store(FillKeys[written + 1], "x")

\* the client writes the first key again (lines 259-260)
Rewrite ==
    /\ model[FillKeys[1]] # Absent
    /\ self.added < MaxFillAdded
    /\ Store(FillKeys[1], "x")

NextFill ==
    \/ FillNext
    \/ Rewrite

SpecFill == InitFill /\ [][NextFill]_vars

\* a client that uses every operation
NextOps ==
    \/ \E k \in Keys : Write(k, "x")
    \/ \E k \in Keys : Read(k)
    \/ \E k \in Keys : Delete(k)
    \/ \E k \in Keys, dflt \in {SENTINEL, NoneVal} : Pop(k, dflt)
    \/ PopItem
    \/ \E k \in Keys : Get(k, NoneVal)
    \/ \E k \in Keys : Contains(k)
    \/ LenCall
    \/ ItemsCall
    \/ Compare

SpecOps == InitCapacity /\ [][NextOps]_vars

\* a client that copies the object and then changes the copy and the
\* original
NextCopy ==
    \/ \E k \in Keys :
          self.added + other.added < MaxCopyAdded /\ Write(k, "x")
    \/ \E k \in Keys : contains(self, k) /\ Delete(k)
    \/ Copy
    \/ \E k \in Keys :
          self.added + other.added < MaxCopyAdded /\ OtherWrite(k, "x")
    \/ \E k \in Keys : OtherDelete(k)

SpecCopy == InitCapacity /\ [][NextCopy]_vars

\* DefaultDict(list, max_len=c)
InitDefaultDict ==
    /\ hash \in Hashes
    /\ \E c \in Capacities : self = NewDefaultDict("list", c, MULTIPLIER)
    /\ other = NewDict(MAX_LEN, MULTIPLIER)
    /\ HistoryInit

\* a client of a DefaultDict that writes, deletes and reads
NextDefault ==
    \/ \E k \in Keys : Write(k, "x")
    \/ \E k \in Keys : Delete(k)
    \/ \E k \in Keys : DefaultRead(k)

SpecDefault == InitDefaultDict /\ [][NextDefault]_vars

\* ------------------------------------------------------------------------
\* Properties
\* ------------------------------------------------------------------------
\* what self[key] gives according to the history of writes and deletes
Expected(key) ==
    IF model[key] = Absent
    THEN [outcome |-> "KeyError", ret |-> NoneVal]
    ELSE [outcome |-> "return", ret |-> model[key]]

\* the pairs the history says items() lists
ExpectedItems == [n \in 1..Len(order) |-> <<order[n], model[order[n]]>>]

\* C1: after any sequence of writes and deletes, every key written and not
\* deleted since reads back the value of its most recent write, and every
\* other key is reported not found; the result of every indexed read that
\* was made is the one the history gives.
RoundTrip ==
    /\ \A k \in Keys : getitem(self, k) = Expected(k)
    /\ last.op = "getitem" =>
          [outcome |-> last.outcome, ret |-> last.ret] = Expected(last.key)

\* a read returns a value after two rebuilds (1 -> 3 -> 9), one key deleted
RoundTripWitness ==
    /\ last.op = "getitem" /\ last.outcome = "return"
    /\ self.max_len = 9
    /\ deleted > 0

\* C2: items(), keys() and values() list the surviving keys in the order of
\* each key's most recent write, whatever rebuilds happened.
OrderKept ==
    /\ items(self) = ExpectedItems
    /\ keys(self) = order
    /\ values(self) = [n \in 1..Len(order) |-> model[order[n]]]

\* two keys, the first overwritten after the second was written, and that
\* overwrite rebuilt the container; the slot order is opposite to the order
\* of the writes
OrderKeptWitness ==
    /\ Len(order) = 2
    /\ written = 2 /\ self.added = 3
    /\ last.op = "setitem" /\ last.key = order[2] /\ last.trace # <<>>
    /\ Slot(self, order[1]) > Slot(self, order[2])

\* C3: len() is the number of occupied slots, and the number of writes that
\* inserted an absent key minus the number of successful deletes.
SizeInvariant ==
    /\ len(self) = Cardinality(Occupied(self))
    /\ len(self) = written - deleted

\* an overwrite, a delete and a rebuild happened
SizeInvariantWitness ==
    /\ written = 2 /\ deleted = 1 /\ self.added = 3
    /\ self.max_len \notin Capacities
    /\ len(self) = 1

\* C4: every indexed write returns.
EveryWriteReturns == last.op = "setitem" => last.outcome = "return"

\* The writes the model ends at MaxDepth are writes that never return: the
\* key's hash equals the hash of a stored key, so the two share a slot at
\* every capacity, or the multiplier is 1, so the capacity never changes.
AbortedWriteDiverges ==
    ~Running =>
        \/ self.multiplier = 1
        \/ \E k \in Keys : /\ k # last.key
                            /\ contains(self, k)
                            /\ hash[k] = hash[last.key]

\* C5: writing a key that maps to the slot of a stored distinct key leaves
\* the capacity strictly greater and both keys present with their values.
CollisionForcesGrowth ==
    [][\A k1, k2 \in Keys :
          (/\ k1 # k2
           /\ contains(self, k1)
           /\ Slot(self, k1) = Slot(self, k2)
           /\ last'.op = "setitem"
           /\ last'.key = k2)
          => /\ self'.max_len > self.max_len
             /\ getitem(self', k1) = getitem(self, k1)
             /\ getitem(self', k2) = [outcome |-> "return", ret |-> last'.value]]_vars

\* the entries of the occupied slots, with their sequence numbers
Entries(d) == {d.store[i] : i \in Occupied(d)}

Renumbered(d) ==
    LET slots == SortedSlots(d)
    IN \A i \in 1..Len(slots) : d.store[slots[i]][3] = i - 1

\* a rebuild keeps the pairs and their order, and numbers them anew
KeepsItems(before, after) ==
    /\ items(after) = items(before)
    /\ after.len = before.len
    /\ Cardinality(Occupied(after)) = Cardinality(Occupied(before))
    /\ Renumbered(after)

IterationMatchesItems ==
    \A c \in Consumers :
        (cons[c].st = "stopped" /\ cons[c].alone) => cons[c].got = items(self)

\* What such an iteration yields is every stored pair once, in slot order.
IterationInSlotOrder ==
    \A c \in Consumers :
        (cons[c].st = "stopped" /\ cons[c].alone) => cons[c].got = SlotPairs(self)

\* C8: the cursor is shared.  (a) iter() by one consumer puts the cursor
\* back to slot 0 while the other consumer is part-way; (b) from then on, and
\* while the container is not mutated, the pairs given to the two consumers
\* together are one pass over the slots: each next() of the first consumer
\* follows the cursor the second one started, not its own position; (c) once
\* the second consumer has seen StopIteration, the first is given no further
\* pair: its next() raises StopIteration.
SplitPass ==
    \A c \in Consumers :
        (cons[c].cut /\ cons[Other(c)].st \in {"running", "stopped"})
        => LET given == cons[c].after \o cons[Other(c)].got
           IN IF self.iterators >= 0
              THEN Len(given) = Cardinality({i \in Occupied(self) : i < self.iterators})
              ELSE Len(given) = len(self)

SharedCursor ==
    [][/\ \A c \in Consumers :
             (cons'[c].cut /\ ~cons[c].cut) => self'.iterators = 0
       /\ SplitPass'
       /\ \A c \in Consumers :
             (/\ cons[c].cut /\ cons'[c].cut
              /\ cons[c].st = "running"
              /\ cons[Other(c)].st = "stopped"
              /\ cons'[Other(c)].st = "stopped")
             => /\ cons'[c].got = cons[c].got
                /\ cons'[c].st = "stopped"
                /\ self'.iterators = -1]_vars

\* the first consumer was cut part-way, both consumers have seen
\* StopIteration, and a stored pair was never given to the first
SharedCursorWitness ==
    \E c \in Consumers :
        /\ cons[c].cut
        /\ cons[c].st = "stopped" /\ cons[Other(c)].st = "stopped"
        /\ cons[c].after # <<>>
        /\ \E n \in 1..Len(items(self)) :
               \A j \in 1..Len(cons[c].got) : cons[c].got[j] # items(self)[n]

\* C7's case: an undisturbed iteration over entries whose slot order is not
\* their insertion order
IterationWitness ==
    \E c \in Consumers :
        /\ cons[c].st = "stopped" /\ cons[c].alone
        /\ Len(cons[c].got) = 2
        /\ cons[c].got # items(self)

\* C10: pop(key) of a present key returns its value and removes exactly
\* that key; pop(key, default) of an absent key returns the default, whatever
\* its truth value, and changes nothing; pop(key) of an absent key without a
\* default raises KeyError and changes nothing.
PopContract ==
    [][last'.op = "pop" =>
          LET k == last'.key
              dflt == last'.value
          IN IF model[k] # Absent
             THEN /\ last'.outcome = "return"
                  /\ last'.ret = model[k]
                  /\ len(self') = len(self) - 1
                  /\ getitem(self', k).outcome = "KeyError"
                  /\ items(self') = SelectSeq(items(self), LAMBDA p : p[1] # k)
                  /\ self'.max_len = self.max_len
             ELSE /\ self' = self
                  /\ IF dflt # SENTINEL
                     THEN last'.outcome = "return" /\ last'.ret = dflt
                     ELSE last'.outcome = "KeyError"]_vars

\* an absent key was popped from a non-empty container with default None
PopContractWitness ==
    /\ last.op = "pop" /\ last.outcome = "return"
    /\ last.value = NoneVal /\ last.ret = NoneVal
    /\ len(self) = 2

\* the pairs the history of the second object says its items() lists
OtherExpectedItems == [n \in 1..Len(oorder) |-> <<oorder[n], omodel[oorder[n]]>>]

\* C9: two containers compare equal exactly when the same pairs were last
\* written to them in the same order, whatever their capacities.
EqualityIsItemwise ==
    /\ eq(self, other) <=> (ExpectedItems = OtherExpectedItems)
    /\ last.op = "eq" => (last.ret <=> (ExpectedItems = OtherExpectedItems))

\* two objects of different capacities, holding the same two pairs in slots
\* whose order is opposite to the order of the writes, compared equal
EqualityWitness ==
    /\ last.op = "eq" /\ last.ret = TRUE
    /\ self.max_len # other.max_len
    /\ Len(order) = 2
    /\ Slot(self, order[1]) > Slot(self, order[2])

\* C11: popitem() on a non-empty container returns the pair of the key whose
\* most recent write is latest, which is the last pair of items() and the
\* entry with the largest sequence number, and removes that entry alone; on an
\* empty container it raises KeyError and changes nothing.
PopItemContract ==
    [][last'.op = "popitem" =>
          IF order # <<>>
          THEN LET k == order[Len(order)]
                   h == Slot(self, k)
               IN /\ last'.outcome = "return"
                  /\ last'.ret = <<k, model[k]>>
                  /\ last'.ret = items(self)[Len(items(self))]
                  /\ \A e \in Entries(self) : e[3] <= self.store[h][3]
                  /\ self' = [self EXCEPT !.store[h] = Empty, !.len = self.len - 1]
                  /\ items(self') = SubSeq(items(self), 1, Len(items(self)) - 1)
          ELSE /\ last'.outcome = "KeyError"
               /\ self' = self]_vars

\* popitem() returned the later-written of two keys, after an overwrite and a
\* rebuild; the key it returned is not the one in the last occupied slot
PopItemWitness ==
    /\ last.op = "popitem" /\ last.outcome = "return"
    /\ written = 2 /\ self.added = 3 /\ deleted = 1
    /\ self.max_len \notin Capacities
    /\ len(self) = 1
    /\ Slot(self, last.ret[1]) < Slot(self, order[1])

\* C12 as claimed: with a key that is not hashable, indexed read, write and
\* delete raise the unhashable-key error, contains gives False and get gives
\* its default.
UnhashableRaises ==
    last.key = Unhashable =>
        /\ last.op \in {"getitem", "setitem", "delitem"} => last.outcome = "TypeError"
        /\ last.op = "contains" => last.ret = FALSE
        /\ last.op = "get" => last.outcome = "return" /\ last.ret = last.value

\* C12 as amended: with a key that is not hashable, indexed write raises the
\* unhashable-key error, indexed read and indexed delete raise KeyError,
\* contains gives False and get gives its default.
UnhashableContract ==
    last.key = Unhashable =>
        /\ last.op = "setitem" => last.outcome = "TypeError"
        /\ last.op \in {"getitem", "delitem"} => last.outcome = "KeyError"
        /\ last.op = "contains" => last.ret = FALSE
        /\ last.op = "get" => last.outcome = "return" /\ last.ret = last.value

\* an indexed read with the unhashable key raised KeyError on a container
\* that holds entries
UnhashableWitness ==
    /\ last.key = Unhashable /\ last.op = "getitem" /\ last.outcome = "KeyError"
    /\ len(self) = 2

\* C13: the number of entries never exceeds the capacity; a write issued when
\* the two are equal rebuilds the container as it was found, at a larger
\* capacity, before it places the entry; and writing five distinct keys to
\* Dictionary() ends with a capacity of at least 8 and len() 5, whatever the
\* hashes of the keys.
FiveKeysFill ==
    [][/\ self.len <= self.max_len
       /\ self'.len <= self'.max_len
       /\ (last'.op = "setitem" /\ self.len = self.max_len) =>
             /\ last'.trace # <<>>
             /\ last'.trace[1][1] = self
             /\ last'.trace[1][2].max_len > self.max_len
       /\ (written' = Len(FillKeys) \/ last'.outcome = "RecursionError") =>
             /\ self'.max_len >= MAX_LEN * MULTIPLIER
             /\ len(self') = Len(FillKeys)]_vars

\* What holds of the five writes: the number of entries never exceeds the
\* capacity, a write issued when the two are equal rebuilds the container as
\* it was found at _max_len * _multiplier before it places the entry, and
\* every state in which the five keys are written has a capacity of at least
\* 8 and len() 5.
LoadFactor ==
    [][/\ self.len <= self.max_len
       /\ self'.len <= self'.max_len
       /\ (last'.op = "setitem" /\ self.len = self.max_len) =>
             /\ last'.trace # <<>>
             /\ last'.trace[1][1] = self
             /\ last'.trace[1][2].max_len = self.max_len * self.multiplier
             /\ last'.trace[1][2].max_len > self.max_len
             /\ self'.max_len >= last'.trace[1][2].max_len
       /\ written' = Len(FillKeys) =>
             /\ self'.max_len >= MAX_LEN * MULTIPLIER
             /\ len(self') = Len(FillKeys)]_vars

\* the fifth key was written to a full container of capacity 4, which was
\* rebuilt once, to capacity 8
LoadFactorReached ==
    /\ written = Len(FillKeys) /\ len(self) = Len(FillKeys)
    /\ self.max_len = MAX_LEN * MULTIPLIER
    /\ last.op = "setitem" /\ last.key = FillKeys[Len(FillKeys)]
    /\ Len(last.trace) = 1
    /\ last.trace[1][1].len = MAX_LEN

\* every occupied slot is the slot of the key it holds, and no key is held
\* by two slots
WellPlaced(d) ==
    /\ \A i \in Occupied(d) : Slot(d, d.store[i][1]) = i
    /\ \A i, j \in Occupied(d) : d.store[i][1] = d.store[j][1] => i = j

\* C14: in every reachable state each occupied slot i holds a key with
\* hash(key) % _max_len = i and no two slots hold the same key; the same
\* holds of the object right after every rebuild a write made.
SlotsWellPlaced ==
    /\ WellPlaced(self)
    /\ \A n \in 1..Len(last.trace) : WellPlaced(last.trace[n][2])

\* the write of a third key met a collision and rebuilt the container, and
\* the three keys are stored
SlotsWellPlacedWitness ==
    /\ last.op = "setitem" /\ last.outcome = "return" /\ last.trace # <<>>
    /\ last.trace[1][1].len < last.trace[1][1].max_len
    /\ len(self) = 3

\* C17: every rebuild is made at _max_len * _multiplier with the object's own
\* multiplier, which no operation changes: a write that rebuilds n times
\* leaves the capacity multiplied by _multiplier ^ n, no other operation
\* changes the capacity, and so the capacity is the initial one times a power
\* of the multiplier.
GrowsByOwnMultiplier ==
    [][/\ self'.multiplier = self.multiplier
       /\ \E c \in Capacities, k \in 0..(MaxAdded * (MaxDepth + 1)) :
             self'.max_len = c * (self.multiplier ^ k)
       /\ IF last'.op = "setitem"
          THEN /\ self'.max_len = self.max_len * (self.multiplier ^ Len(last'.trace))
               /\ \A n \in 1..Len(last'.trace) :
                     /\ last'.trace[n][2].max_len =
                           last'.trace[n][1].max_len * self.multiplier
                     /\ last'.trace[n][2].multiplier = self.multiplier
          ELSE self'.max_len = self.max_len]_vars

\* a container of multiplier 3 was rebuilt twice by one write: 1 -> 3 -> 9
GrowsByOwnMultiplierWitness ==
    /\ self.multiplier = 3 /\ self.max_len = 9
    /\ last.op = "setitem" /\ last.outcome = "return" /\ Len(last.trace) = 2

\* C18: del self[key] for a key that is not stored raises KeyError and
\* changes nothing; for a stored key it clears that key's slot alone and
\* decrements _len by one.
DeleteContract ==
    [][last'.op = "delitem" =>
          LET k == last'.key
              h == Slot(self, k)
          IN IF model[k] # Absent
             THEN /\ last'.outcome = "return"
                  /\ self.store[h][1] = k
                  /\ self' = [self EXCEPT !.store[h] = Empty, !.len = self.len - 1]
             ELSE /\ last'.outcome = "KeyError"
                  /\ self' = self]_vars

\* a delete of a key that is not stored raised KeyError when the key's slot
\* holds another key
DeleteContractWitness ==
    /\ last.op = "delitem" /\ last.outcome = "KeyError"
    /\ self.store[Slot(self, last.key)] # Empty
    /\ len(self) = 2

\* the sequence numbers of d's entries differ and are below d's counter
WellNumbered(d) ==
    /\ \A i, j \in Occupied(d) : d.store[i][3] = d.store[j][3] => i = j
    /\ \A i \in Occupied(d) : d.store[i][3] < d.added

\* C20: in every reachable state, and right after every rebuild a write made,
\* the sequence numbers of the stored entries are pairwise distinct and below
\* _added; the pair a write stored is the last of items().
SequencesDistinct ==
    /\ WellNumbered(self)
    /\ \A n \in 1..Len(last.trace) : WellNumbered(last.trace[n][2])
    /\ (last.op = "setitem" /\ last.outcome = "return") =>
          items(self)[Len(items(self))] = <<last.key, last.value>>

\* a write after an overwrite, a delete and a rebuild: the rebuild numbered
\* the one entry 0 when _added was 2
SequencesDistinctWitness ==
    /\ last.op = "setitem" /\ last.outcome = "return" /\ last.trace # <<>>
    /\ deleted = 1 /\ self.added = 3 /\ len(self) = 2
    /\ last.trace[1][2].added = 2
    /\ \A i \in Occupied(last.trace[1][2]) : last.trace[1][2].store[i][3] = 0

\* C19: no operation lowers the capacity; delete, pop and popitem leave it
\* as it is; indexed read, get, contains, len, items and equality leave the
\* whole object as it is; a write changes the capacity only when the
\* container is full or the key's slot holds another key.
CapacityNeverShrinks ==
    [][/\ self'.max_len >= self.max_len
       /\ last'.op \in {"delitem", "pop", "popitem"} => self'.max_len = self.max_len
       /\ last'.op \in {"getitem", "get", "contains", "len", "items", "eq"} =>
             self' = self /\ other' = other
       /\ (last'.op = "setitem" /\ self'.max_len # self.max_len) =>
             \/ self.len >= self.max_len
             \/ LET h == Slot(self, last'.key)
                IN self.store[h] # Empty /\ self.store[h][1] # last'.key]_vars

\* pop removed the last entry of a container that had grown: the capacity
\* stays
CapacityNeverShrinksWitness ==
    /\ last.op = "pop" /\ last.outcome = "return" /\ last.ret \in Vals
    /\ self.max_len \notin Capacities
    /\ len(self) = 0

\* C15: right after copy.copy the copy equals the original, and from then on
\* a write or a delete on the copy leaves items(), len() and every lookup of
\* the original as they were, and a write or a delete on the original leaves
\* those of the copy.
CopyIsIndependent ==
    [][/\ last'.op = "copy" => eq(self', other')
       /\ last'.op \in {"other.setitem", "other.delitem"} =>
             /\ items(self') = items(self)
             /\ len(self') = len(self)
             /\ \A k \in Keys : getitem(self', k) = getitem(self, k)
       /\ last'.op \in {"setitem", "delitem"} =>
             /\ items(other') = items(other)
             /\ len(other') = len(other)
             /\ \A k \in Keys : getitem(other', k) = getitem(other, k)]_vars

\* What holds of a copy: it equals the original when it is made, and an
\* operation on one object that rebuilds it leaves the other as it was.
CopyApartAfterRebuild ==
    [][/\ last'.op = "copy" => eq(self', other')
       /\ (last'.op = "other.setitem" /\ last'.trace # <<>>) => self' = self
       /\ (last'.op = "setitem" /\ last'.trace # <<>>) => other' = other
       /\ ~shared => (self' = self \/ other' = other)]_vars

\* C16: on a DefaultDict an indexed read of an absent key does not fail: it
\* calls the factory once, writes the result under the key and returns it; a
\* read of a stored key returns the stored value and does not call the
\* factory; the object holds its factory after every operation, rebuilds
\* included.
DefaultMaterializes ==
    [][/\ self'.factory = self.factory
       /\ last'.op = "default.getitem" =>
             LET k == last'.key
             IN /\ last'.outcome = "return"
                /\ IF model[k] = Absent
                   THEN /\ made' = made + 1
                        /\ last'.ret = Made[made']
                        /\ getitem(self', k) = [outcome |-> "return", ret |-> last'.ret]
                   ELSE /\ made' = made
                        /\ last'.ret = model[k]
                        /\ self' = self]_vars

\* What holds of a DefaultDict: every read that returns is as claimed, also
\* when the write it makes rebuilds the container, and the factory stays.
DefaultMaterializesOnReturn ==
    [][/\ self'.factory = self.factory
       /\ (last'.op = "default.getitem" /\ last'.outcome = "return") =>
             LET k == last'.key
             IN IF model[k] = Absent
                THEN /\ made' = made + 1
                     /\ last'.ret = Made[made']
                     /\ getitem(self', k) = [outcome |-> "return", ret |-> last'.ret]
                ELSE /\ made' = made
                     /\ last'.ret = model[k]
                     /\ self' = self]_vars

\* a read returned the value an earlier read had made, after the container
\* was rebuilt
DefaultMaterializesReached ==
    /\ last.op = "default.getitem" /\ last.outcome = "return"
    /\ last.trace = <<>> /\ last.ret = Made[1]
    /\ made = 2
    /\ self.max_len \notin Capacities

====
